---- MODULE Spec2Model ----
(***************************************************************************)
(* GestureHandler (src/index.js): the gesture session of quantumleapjs.    *)
(* The session's fields are the variables; every public method and every   *)
(* transport callback is an operator from a context record (the fields,    *)
(* plus what the call did: messages handed to the transport, events given  *)
(* to subscribers, transports closed, a raised failure) to a context       *)
(* record, and an action commits the context a call ends with.  JavaScript *)
(* runs each call and each callback to completion, so an action is one     *)
(* whole call.                                                             *)
(***************************************************************************)
EXTENDS Integers, Sequences, FiniteSets, TLC

\* ------------------------------------------------------------------ bounds
MaxNames == 2        \* longest list of names given to register/unregister
MaxListeners == 2    \* most subscribers held at once (all kinds together)
MaxTransports == 2   \* transports created over the life of a session
MaxElems == 3        \* longest data list of an inbound message

\* --------------------------------------------------------------- constants
Names == {"fist", "wave"}
Types == {"static", "dynamic"}
Kinds == {"frame", "gesture", "connect", "disconnect", "error"}
NoClient == 0
EmptyFrame == "{}"
Frames == {"f1"}

\* The server is not part of the repository.  It never acts on the session;
\* it is followed only to compare its sets with the session's.  A stateless
\* server keeps no sets, a session server keeps sets per connection and
\* forgets them when the connection drops, a persistent server keeps them.
ServerKinds == {"stateless", "session", "persistent"}
NoSets == [static |-> {}, dynamic |-> {}]

\* Subscribers are caller code.  h1 and h2 only receive the event, thrower
\* raises, closer calls disconnect() on the session.
Handlers == {"h1", "h2", "thrower", "closer"}

VARIABLES
    requireRegistration,  \* this.requireRegistration
    registeredGestures,   \* this._registeredGestures: {static: [], dynamic: []}
    eventListeners,       \* this._eventListeners: kind -> array of listeners
    connected,            \* this._connected
    client,               \* this._client: NoClient (null) or a transport
    sockets,              \* the transports created so far
    server,               \* per transport, the sets the server holds for it
    serverKind,           \* what the server does with its sets (ServerKinds)
    last                  \* the last call or callback, and what it did

vars == <<requireRegistration, registeredGestures, eventListeners, connected,
          client, sockets, server, serverKind, last>>

\* ----------------------------------------------------------------- helpers
SeqsUpTo(S, n) == UNION {[1..k -> S] : k \in 0..n}

Includes(s, x) == \E i \in 1..Len(s) : s[i] = x

Count(s, x) == Cardinality({i \in 1..Len(s) : s[i] = x})

ToSet(s) == {s[i] : i \in 1..Len(s)}

TotalListeners(l) == Len(l.frame) + Len(l.gesture) + Len(l.connect)
                     + Len(l.disconnect) + Len(l.error)

\* [].concat(names || []): a string becomes a one-element list, a list is
\* kept, undefined becomes the empty list.
Concat(names) ==
    IF names.kind = "string" THEN <<names.value>>
    ELSE IF names.kind = "array" THEN names.value
    ELSE <<>>

\* The context a call starts with.
Ctx0 ==
    [requireRegistration |-> requireRegistration,
     registered |-> registeredGestures,
     listeners |-> eventListeners,
     connected |-> connected,
     client |-> client,
     sockets |-> sockets,
     server |-> server,
     serverKind |-> serverKind,
     sent |-> <<>>, events |-> <<>>, closed |-> <<>>, threw |-> FALSE]

Throw(c) == [c EXCEPT !.threw = TRUE]

\* --------------------------------------------------------------- transport
\* The server applies the records of an operation message in order.
RECURSIVE ServerApply(_, _, _)
ServerApply(sv, data, i) ==
    IF i > Len(data) THEN sv
    ELSE LET r == data[i]
             sv1 == CASE r.type = "addPose" -> [sv EXCEPT !.static = @ \cup {r.name}]
                      [] r.type = "addGesture" -> [sv EXCEPT !.dynamic = @ \cup {r.name}]
                      [] r.type = "removePose" -> [sv EXCEPT !.static = @ \ {r.name}]
                      [] r.type = "removeGesture" -> [sv EXCEPT !.dynamic = @ \ {r.name}]
                      [] OTHER -> sv
         IN ServerApply(sv1, data, i + 1)

\* transport.send(text): the message reaches the server over an open
\* connection.
SocketSend(c, id, message) ==
    [c EXCEPT !.sent = Append(@, [to |-> id, connected |-> c.connected,
                                  message |-> message]),
              !.server[id] = IF c.sockets[id].state = "open"
                                /\ c.serverKind # "stateless"
                             THEN ServerApply(@, message.data, 1) ELSE @]

\* transport.close(): the transport stops reconnecting; its close
\* notification comes later.
SocketClose(c, id) ==
    [c EXCEPT !.sockets[id].closeCalled = TRUE, !.closed = Append(@, id)]

\* this._client.send(...): a failure when this._client is null.
ClientSend(c, message) ==
    IF c.client = NoClient THEN Throw(c) ELSE SocketSend(c, c.client, message)

\* ----------------------------------------------------------------- session
\* disconnect without the release of this._client.
disconnectKeepsHandle(c) ==
    LET c1 == IF c.client # NoClient THEN SocketClose(c, c.client) ELSE c
    IN [c1 EXCEPT !.connected = FALSE]

disconnect(c) ==
    LET c1 == IF c.client # NoClient THEN SocketClose(c, c.client) ELSE c
    IN [c1 EXCEPT !.connected = FALSE, !.client = NoClient]

\* fn(event) for one subscriber: pos is its place in the list, elem the
\* place in the inbound message of the element the event comes from (0: none).
Invoke(c, fn, pos, event, elem) ==
    LET c1 == [c EXCEPT !.events = Append(@, [fn |-> fn, pos |-> pos,
                                              event |-> event, elem |-> elem])]
    IN CASE fn = "thrower" -> Throw(c1)
         [] fn = "closer" -> disconnect(c1)
         [] OTHER -> c1

\* listeners.forEach(fn => fn(event)): a failure of one call ends the loop
\* and leaves the callback.
RECURSIVE forEach(_, _, _, _, _)
forEach(c, fns, pos, event, elem) ==
    IF pos > Len(fns) \/ c.threw THEN c
    ELSE forEach(Invoke(c, fns[pos], pos, event, elem), fns, pos + 1, event, elem)

OpRecords(opKind, names) ==
    [i \in 1..Len(names) |-> [type |-> opKind, name |-> names[i]]]

PrivRegisterGestures(c, type, names) ==
    LET data == IF type = "static" THEN OpRecords("addPose", names)
                ELSE OpRecords("addGesture", names)
    IN IF Len(data) > 0
       THEN ClientSend(c, [type |-> "operation", data |-> data])
       ELSE c

PrivUnregisterGestures(c, type, names) ==
    LET data == IF type = "static" THEN OpRecords("removePose", names)
                ELSE OpRecords("removeGesture", names)
    IN IF Len(data) > 0
       THEN ClientSend(c, [type |-> "operation", data |-> data])
       ELSE c

\* registerGestures without the test of this._connected.
registerGesturesUnguarded(c, type, names) ==
    IF type \in DOMAIN c.registered
    THEN LET list == Concat(names)
             Absent(name) == ~Includes(c.registered[type], name)
             new == SelectSeq(list, Absent)
             c1 == [c EXCEPT !.registered[type] = @ \o new]
         IN PrivRegisterGestures(c1, type, new)
    ELSE c

registerGestures(c, type, names) ==
    IF type \in DOMAIN c.registered
    THEN LET list == Concat(names)
             Absent(name) == ~Includes(c.registered[type], name)
             new == SelectSeq(list, Absent)
             c1 == [c EXCEPT !.registered[type] = @ \o new]
         IN IF c1.connected THEN PrivRegisterGestures(c1, type, new) ELSE c1
    ELSE c

unregisterGestures(c, type, names) ==
    IF type \in DOMAIN c.registered
    THEN LET list == Concat(names)
             Given(name) == Includes(list, name)
             Kept(name) == ~Includes(list, name)
             removedNames == SelectSeq(c.registered[type], Given)
             c1 == [c EXCEPT !.registered[type] = SelectSeq(@, Kept)]
         IN IF c1.connected THEN PrivUnregisterGestures(c1, type, removedNames)
            ELSE c1
    ELSE c

addEventListener(c, type, listener) ==
    IF type \in DOMAIN c.listeners
    THEN [c EXCEPT !.listeners[type] = Append(@, listener)]
    ELSE c

removeEventListener(c, type, listener) ==
    IF type \in DOMAIN c.listeners
    THEN LET Same(elem) == elem = listener
         IN [c EXCEPT !.listeners[type] = SelectSeq(@, Same)]
    ELSE c

\* type "undefined" stands for the call without an argument.
removeEventListeners(c, type) ==
    IF type = "undefined"
    THEN [c EXCEPT !.listeners = [k \in DOMAIN c.listeners |-> <<>>]]
    ELSE IF type \in DOMAIN c.listeners
    THEN [c EXCEPT !.listeners[type] = <<>>]
    ELSE c

\* The transports not created yet; connect takes the first.
Unused(c) == {id \in 1..MaxTransports : c.sockets[id].state = "unused"}

\* connect without the test of this._client.
connectUnguarded(c) ==
    IF Unused(c) = {} THEN c
    ELSE LET id == CHOOSE i \in Unused(c) : \A j \in Unused(c) : i <= j
         IN [c EXCEPT !.client = id, !.sockets[id].state = "connecting"]

connect(c) ==
    IF c.client # NoClient THEN c
    ELSE LET id == CHOOSE i \in Unused(c) : \A j \in Unused(c) : i <= j
         IN [c EXCEPT !.client = id, !.sockets[id].state = "connecting"]

\* ----------------------------------------------------------------- events
ConnectEvent == [type |-> "connect"]
DisconnectEvent(e) == [type |-> "disconnect", message |-> e]
ErrorEvent(e) == [type |-> "error", message |-> e]
FrameEvent(frame) == [type |-> "frame", frame |-> frame]
GestureEvent(gesture, frame) == [type |-> "gesture", gesture |-> gesture, frame |-> frame]

\* --------------------------------------------------------- the callbacks
onopen(c) ==
    LET c1 == [c EXCEPT !.connected = TRUE]
        c2 == forEach(c1, c1.listeners.connect, 1, ConnectEvent, 0)
        c3 == IF c2.threw THEN c2
              ELSE PrivRegisterGestures(c2, "static", c2.registered.static)
        c4 == IF c3.threw THEN c3
              ELSE PrivRegisterGestures(c3, "dynamic", c3.registered.dynamic)
    IN c4

\* An element of a data list: an object {type, name, data}, or null.
NullElem == [type |-> "null", name |-> "", data |-> ""]
IsNull(d) == d = NullElem

\* Whether payload e parses to a data message with a non-empty list.
HasElems(e) == e.parses /\ e.json.type = "data" /\ e.json.hasData /\ Len(e.json.data) > 0

\* The payload of the frame element that leads message e, EmptyFrame when
\* the message has none.
LeadingFrame(e) ==
    IF HasElems(e) /\ e.json.data[1].type = "frame" THEN e.json.data[1].data
    ELSE EmptyFrame

\* frame kept from one message to the next.
StaleInitialFrame == IF last.op = "message" THEN LeadingFrame(last.e) ELSE EmptyFrame

\* let frame = {}
InitialFrame == EmptyFrame

\* for (; i < msg.data.length; i++) { ... }
RECURSIVE gestureLoop(_, _, _, _)
gestureLoop(c, data, i, frame) ==
    IF i > Len(data) \/ c.threw THEN c
    ELSE LET d == data[i]
         IN IF IsNull(d) THEN Throw(c)
            ELSE IF d.type = "static" \/ d.type = "dynamic"
            THEN LET event == GestureEvent([type |-> d.type, name |-> d.name,
                                            data |-> d.data], frame)
                     c1 == IF ~c.requireRegistration
                              \/ Includes(c.registered[d.type], d.name)
                           THEN forEach(c, c.listeners.gesture, 1, event, i)
                           ELSE c
                 IN gestureLoop(c1, data, i + 1, frame)
            ELSE gestureLoop(c, data, i + 1, frame)

\* onmessage with the frame subscribers called after the gesture loop.
onmessageFrameLast(c, e) ==
    IF ~e.parses THEN Throw(c)
    ELSE LET msg == e.json
         IN IF msg.type # "data" THEN c
            ELSE IF ~msg.hasData THEN Throw(c)
            ELSE IF Len(msg.data) = 0 THEN c
            ELSE IF IsNull(msg.data[1]) THEN Throw(c)
            ELSE IF msg.data[1].type = "frame"
            THEN LET frame == msg.data[1].data
                     c1 == gestureLoop(c, msg.data, 2, frame)
                 IN forEach(c1, c1.listeners.frame, 1, FrameEvent(frame), 1)
            ELSE gestureLoop(c, msg.data, 1, InitialFrame)

\* e is the text payload: it parses to e.json or JSON.parse raises.
onmessage(c, e) ==
    IF ~e.parses THEN Throw(c)
    ELSE LET msg == e.json
         IN IF msg.type # "data" THEN c
            ELSE IF ~msg.hasData THEN Throw(c)
            ELSE IF Len(msg.data) = 0 THEN c
            ELSE IF IsNull(msg.data[1]) THEN Throw(c)
            ELSE IF msg.data[1].type = "frame"
            THEN LET frame == msg.data[1].data
                     c1 == forEach(c, c.listeners.frame, 1, FrameEvent(frame), 1)
                 IN gestureLoop(c1, msg.data, 2, frame)
            ELSE gestureLoop(c, msg.data, 1, InitialFrame)

onerror(c, e) == forEach(c, c.listeners.error, 1, ErrorEvent(e), 0)

onclose(c, e) ==
    LET c1 == [c EXCEPT !.connected = FALSE]
    IN forEach(c1, c1.listeners.disconnect, 1, DisconnectEvent(e), 0)

\* ------------------------------------------------------------------ inputs
NameInputs ==
    {[kind |-> "string", value |-> n] : n \in Names}
    \cup {[kind |-> "array", value |-> s] : s \in SeqsUpTo(Names, MaxNames)}
    \cup {[kind |-> "undefined", value |-> <<>>]}

TypeInputs == Types \cup {"unknown"}

\* The gestures a message reports: fist in either category, wave as a pose.
Gestures ==
    {[type |-> t, name |-> "fist", data |-> "g"] : t \in Types}
    \cup {[type |-> "static", name |-> "wave", data |-> "g"]}

Elems ==
    {[type |-> "frame", name |-> "", data |-> f] : f \in Frames}
    \cup Gestures
    \cup {[type |-> "other", name |-> "", data |-> ""], NullElem}

Payloads ==
    {[parses |-> TRUE, json |-> [type |-> "data", hasData |-> TRUE, data |-> s]] :
        s \in SeqsUpTo(Elems, MaxElems)}
    \cup {[parses |-> TRUE, json |-> [type |-> "data", hasData |-> FALSE, data |-> <<>>]],
          [parses |-> TRUE, json |-> [type |-> "hello", hasData |-> TRUE, data |-> <<>>]],
          [parses |-> FALSE, json |-> [type |-> "", hasData |-> FALSE, data |-> <<>>]]}

NoPayload == [parses |-> FALSE, json |-> [type |-> "-", hasData |-> FALSE, data |-> <<>>]]

\* ----------------------------------------------------------------- actions
\* What the last call was and what it did: the messages handed to the
\* transport, the events given to subscribers, the transports closed,
\* whether it raised, whether it changed the Registration Store.
Done(c, op, socket, e) ==
    /\ registeredGestures' = c.registered
    /\ eventListeners' = c.listeners
    /\ connected' = c.connected
    /\ client' = c.client
    /\ sockets' = c.sockets
    /\ server' = c.server
    /\ last' = [op |-> op, socket |-> socket, e |-> e, sent |-> c.sent,
                events |-> c.events, closed |-> c.closed, threw |-> c.threw,
                changed |-> c.registered # registeredGestures]
    /\ UNCHANGED <<requireRegistration, serverKind>>

Init ==
    /\ requireRegistration \in BOOLEAN
    /\ registeredGestures = [static |-> <<>>, dynamic |-> <<>>]
    /\ eventListeners = [frame |-> <<>>, gesture |-> <<>>, connect |-> <<>>,
                         disconnect |-> <<>>, error |-> <<>>]
    /\ connected = FALSE
    /\ client = NoClient
    /\ sockets = [id \in 1..MaxTransports |-> [state |-> "unused", closeCalled |-> FALSE]]
    /\ server = [id \in 1..MaxTransports |-> NoSets]
    /\ serverKind \in ServerKinds
    /\ last = [op |-> "new", socket |-> 0, e |-> NoPayload, sent |-> <<>>,
               events |-> <<>>, closed |-> <<>>, threw |-> FALSE,
               changed |-> FALSE]

RegisterGestures(type, names) ==
    Done(registerGestures(Ctx0, type, names), "register", 0, NoPayload)

UnregisterGestures(type, names) ==
    Done(unregisterGestures(Ctx0, type, names), "unregister", 0, NoPayload)

AddEventListener(type, listener) ==
    /\ TotalListeners(eventListeners) < MaxListeners
    /\ Done(addEventListener(Ctx0, type, listener), "addEventListener", 0, NoPayload)

RemoveEventListener(type, listener) ==
    Done(removeEventListener(Ctx0, type, listener), "removeEventListener", 0, NoPayload)

RemoveEventListeners(type) ==
    Done(removeEventListeners(Ctx0, type), "removeEventListeners", 0, NoPayload)

Connect ==
    /\ client # NoClient \/ Unused(Ctx0) # {}
    /\ Done(connect(Ctx0), "connect", 0, NoPayload)

Disconnect ==
    Done(disconnect(Ctx0), "disconnect", 0, NoPayload)

\* The transport's notifications.  A transport whose close() was called
\* keeps its callbacks: what it still delivers reaches the session.
SocketOpens(id) ==
    /\ sockets[id].state = "connecting"
    /\ Done(onopen([Ctx0 EXCEPT !.sockets[id].state = "open"]), "open", id, NoPayload)

SocketCloses(id) ==
    /\ sockets[id].state \in {"connecting", "open"}
    /\ Done(onclose([Ctx0 EXCEPT
                       !.sockets[id].state = IF sockets[id].closeCalled THEN "closed"
                                             ELSE "connecting",
                       !.server[id] = IF serverKind = "session" THEN NoSets ELSE @],
                    "closed"),
            "close", id, NoPayload)

SocketErrors(id) ==
    /\ sockets[id].state \in {"connecting", "open"}
    /\ Done(onerror(Ctx0, "failed"), "error", id, NoPayload)

SocketMessage(id, e) ==
    /\ sockets[id].state = "open"
    /\ Done(onmessage(Ctx0, e), "message", id, e)

Next ==
    \/ \E t \in TypeInputs, n \in NameInputs : RegisterGestures(t, n)
    \/ \E t \in TypeInputs, n \in NameInputs : UnregisterGestures(t, n)
    \/ \E k \in Kinds \cup {"unknown"}, fn \in Handlers : AddEventListener(k, fn)
    \/ \E k \in Kinds \cup {"unknown"}, fn \in Handlers : RemoveEventListener(k, fn)
    \/ \E k \in Kinds \cup {"unknown", "undefined"} : RemoveEventListeners(k)
    \/ Connect
    \/ Disconnect
    \/ \E id \in 1..MaxTransports : SocketOpens(id)
    \/ \E id \in 1..MaxTransports : SocketCloses(id)
    \/ \E id \in 1..MaxTransports : SocketErrors(id)
    \/ \E id \in 1..MaxTransports, e \in Payloads : SocketMessage(id, e)

Spec == Init /\ [][Next]_vars

\* ----------------------------------------------------- the checked parts
\* Next over every input is too large to enumerate; each specification
\* below is Next with its inputs narrowed to what a group of properties is
\* about.  The actions are the same.

\* The Registration Store and its synchronisation over one transport.
NextStore ==
    \/ \E t \in TypeInputs, n \in NameInputs : RegisterGestures(t, n)
    \/ \E t \in TypeInputs, n \in NameInputs : UnregisterGestures(t, n)
    \/ Connect
    \/ \E id \in 1..MaxTransports : SocketOpens(id)
    \/ \E id \in 1..MaxTransports : SocketCloses(id)

InitStore == Init /\ requireRegistration = TRUE /\ serverKind # "stateless"

SpecStore == InitStore /\ [][NextStore]_vars

\* The connection lifecycle: connect, disconnect, connect subscribers, and
\* every notification of every transport, the released ones included.
NoRepeat(s) == \A i, j \in 1..Len(s) : s[i] = s[j] => i = j

PlainNameInputs == {n \in NameInputs : NoRepeat(Concat(n))}

SyncHandlers == {"h1", "thrower", "closer"}

NextSync ==
    \/ \E t \in TypeInputs, n \in PlainNameInputs : RegisterGestures(t, n)
    \/ \E t \in TypeInputs, n \in PlainNameInputs : UnregisterGestures(t, n)
    \/ \E fn \in SyncHandlers : AddEventListener("connect", fn)
    \/ RemoveEventListeners("connect")
    \/ Connect
    \/ Disconnect
    \/ \E id \in 1..MaxTransports : SocketOpens(id)
    \/ \E id \in 1..MaxTransports : SocketCloses(id)
    \/ \E id \in 1..MaxTransports : SocketErrors(id)

InitSync == Init /\ requireRegistration = TRUE /\ serverKind = "stateless"

SpecSync == InitSync /\ [][NextSync]_vars

\* The message router: inbound messages, frame and gesture subscribers.
RouterHandlers == {"h1", "thrower"}

\* The router registers one name; messages carry every name of Names, so
\* that a message meets a name registered in its category, in the other
\* category only, or not at all.
RouterNames == {"fist"}

NextRouter ==
    \/ \E t \in Types, n \in RouterNames :
           RegisterGestures(t, [kind |-> "string", value |-> n])
    \/ \E t \in Types, n \in RouterNames :
           UnregisterGestures(t, [kind |-> "string", value |-> n])
    \/ \E k \in {"frame", "gesture"}, fn \in RouterHandlers : AddEventListener(k, fn)
    \/ \E k \in {"frame", "gesture"} : RemoveEventListeners(k)
    \/ Connect
    \/ \E id \in 1..MaxTransports : SocketOpens(id)
    \/ \E id \in 1..MaxTransports, e \in Payloads : SocketMessage(id, e)

InitRouter == Init /\ serverKind = "stateless"

SpecRouter == InitRouter /\ [][NextRouter]_vars

\* The event dispatcher: subscribers of every kind, added and removed, and
\* every notification that publishes an event.
DispatchHandlers == {"h1", "h2", "thrower"}

\* One inbound message: a frame element followed by a gesture element.
DispatchPayloads ==
    {[parses |-> TRUE,
      json |-> [type |-> "data", hasData |-> TRUE,
                data |-> <<[type |-> "frame", name |-> "", data |-> "f1"],
                           [type |-> "static", name |-> "fist", data |-> "g"]>>]]}

NextDispatch ==
    \/ \E k \in Kinds \cup {"unknown"}, fn \in DispatchHandlers : AddEventListener(k, fn)
    \/ \E k \in Kinds \cup {"unknown"}, fn \in DispatchHandlers : RemoveEventListener(k, fn)
    \/ \E k \in Kinds \cup {"unknown", "undefined"} : RemoveEventListeners(k)
    \/ Connect
    \/ \E id \in 1..MaxTransports : SocketOpens(id)
    \/ \E id \in 1..MaxTransports : SocketCloses(id)
    \/ \E id \in 1..MaxTransports : SocketErrors(id)
    \/ \E id \in 1..MaxTransports, e \in DispatchPayloads : SocketMessage(id, e)

InitDispatch == Init /\ requireRegistration = FALSE /\ serverKind = "stateless"

SpecDispatch == InitDispatch /\ [][NextDispatch]_vars

\* ------------------------------------------------------------- properties
Store == registeredGestures

\* The records of the messages of sent, in the order they were handed over.
RECURSIVE AllRecords(_)
AllRecords(sent) ==
    IF sent = <<>> THEN <<>> ELSE Head(sent).message.data \o AllRecords(Tail(sent))

AddKind(t) == IF t = "static" THEN "addPose" ELSE "addGesture"

RemoveKind(t) == IF t = "static" THEN "removePose" ELSE "removeGesture"

\* C1: neither set of the Registration Store holds a name more than once,
\* whatever register and unregister calls were made (a single name or a list,
\* the list possibly repeating a name).
C1_NoDuplicateNames ==
    \A t \in Types, n \in Names : Count(Store[t], n) <= 1

\* C2: the records sent while an open notification is handled are one
\* addPose per name of the static set and one addGesture per name of the
\* dynamic set, for the store as it stands, and nothing else; with both
\* sets empty nothing is sent.
C2_OpenPushesStore ==
    last.op = "open" =>
        LET recs == AllRecords(last.sent)
        IN /\ \A i \in 1..Len(recs) : recs[i].type \in {"addPose", "addGesture"}
           /\ \A t \in Types, n \in Names :
                 Count(recs, [type |-> AddKind(t), name |-> n])
                     = IF Includes(Store[t], n) THEN 1 ELSE 0
           /\ (Store.static = <<>> /\ Store.dynamic = <<>>) => last.sent = <<>>

\* C3: whenever the open handler has finished, the sets of the server that
\* applied every operation message it received over that transport equal
\* the sets of the Registration Store, whether the server forgets its sets
\* on a drop (session) or keeps them (persistent).
C3_ServerMatchesStore ==
    (last.op = "open" /\ ~last.threw) =>
        server[last.socket] = [static |-> ToSet(Store.static),
                               dynamic |-> ToSet(Store.dynamic)]

\* C4: a message is handed to the transport only while the session state is
\* Connected; a register or unregister call made while Disconnected updates
\* the Registration Store, sends nothing and raises nothing.  (The session
\* has no queue: a message is handed over at once or never.)
C4_SendsOnlyWhenConnected ==
    [][/\ \A i \in 1..Len(last'.sent) : last'.sent[i].connected
       /\ (~connected /\ last'.op \in {"register", "unregister"}) =>
             (last'.sent = <<>> /\ ~last'.threw)
       /\ (~connected /\ last'.op = "register") =>
             \A t \in Types, n \in NameInputs :
                 RegisterGestures(t, n) =>
                     \A x \in Names :
                         Includes(Store'[t], x)
                             <=> (Includes(Store[t], x) \/ Includes(Concat(n), x))
       /\ (~connected /\ last'.op = "unregister") =>
             \A t \in Types, n \in NameInputs :
                 UnregisterGestures(t, n) =>
                     \A x \in Names :
                         Includes(Store'[t], x)
                             <=> (Includes(Store[t], x) /\ ~Includes(Concat(n), x))
      ]_vars

\* C4's case: a register or unregister call that changed the store while
\* the session held a transport and was Disconnected, and sent nothing.
C4_Witness ==
    /\ last.op \in {"register", "unregister"}
    /\ last.changed
    /\ ~connected
    /\ client # NoClient
    /\ last.sent = <<>>

\* C5: a register call made while Connected with a name that an earlier
\* call registered in the same category leaves exactly one entry for that
\* name and sends no add record for it; a register call whose names are all
\* present sends no message.
C5_RegisterIdempotent ==
    [][(last'.op = "register" /\ connected /\ connected') =>
          \A t \in Types, n \in NameInputs :
              RegisterGestures(t, n) =>
                  /\ (\A x \in ToSet(Concat(n)) : Includes(Store[t], x))
                         => last'.sent = <<>>
                  /\ \A x \in ToSet(Concat(n)) :
                         Includes(Store[t], x) =>
                             /\ Count(Store'[t], x) = 1
                             /\ Count(AllRecords(last'.sent),
                                      [type |-> AddKind(t), name |-> x]) = 0
      ]_vars

\* C6: while Connected, an unregister call sends one message whose records
\* are removePose (static) or removeGesture (dynamic), one per entry it
\* removed, for exactly the given names that were in the store; when none of
\* the given names is in the store, the store is unchanged, nothing is sent
\* and nothing is raised.
C6_UnregisterSendsRemoved ==
    [][(last'.op = "unregister" /\ connected) =>
          \A t \in Types, n \in NameInputs :
              UnregisterGestures(t, n) =>
                  LET hit == ToSet(Store[t]) \cap ToSet(Concat(n))
                      recs == AllRecords(last'.sent)
                  IN /\ ~last'.threw
                     /\ ToSet(Store'[t]) = ToSet(Store[t]) \ hit
                     /\ IF hit = {}
                        THEN Store' = Store /\ last'.sent = <<>>
                        ELSE /\ Len(last'.sent) = 1
                             /\ Len(recs) = Len(Store[t]) - Len(Store'[t])
                             /\ {recs[i] : i \in 1..Len(recs)}
                                    = {[type |-> RemoveKind(t), name |-> x] : x \in hit}
      ]_vars

\* The gesture elements of message e and the deliveries of their events.
WellFormed(e) ==
    /\ e.parses /\ e.json.type = "data" /\ e.json.hasData
    /\ \A i \in 1..Len(e.json.data) : ~IsNull(e.json.data[i])

GestureElems(e) ==
    {i \in 1..Len(e.json.data) : e.json.data[i].type \in Types}

\* How many times the subscriber at place pos was given the Gesture event
\* of element i.
Deliveries(pos, i) ==
    Cardinality({k \in 1..Len(last.events) :
                    /\ last.events[k].event.type = "gesture"
                    /\ last.events[k].pos = pos
                    /\ last.events[k].elem = i})

\* C7: with requireRegistration, each static or dynamic element of an
\* inbound data message gives one Gesture event to every gesture subscriber
\* when its name is in the store set of its own category, and none otherwise.
C7_RegistrationFilter ==
    (last.op = "message" /\ requireRegistration /\ WellFormed(last.e)) =>
        \A i \in GestureElems(last.e), pos \in 1..Len(eventListeners.gesture) :
            Deliveries(pos, i)
                = IF Includes(Store[last.e.json.data[i].type], last.e.json.data[i].name)
                  THEN 1 ELSE 0

\* C8: without requireRegistration, each static or dynamic element of an
\* inbound data message gives exactly one Gesture event to every gesture
\* subscriber, whatever the store holds.
C8_EveryGestureDelivered ==
    (last.op = "message" /\ ~requireRegistration /\ WellFormed(last.e)) =>
        \A i \in GestureElems(last.e), pos \in 1..Len(eventListeners.gesture) :
            Deliveries(pos, i) = 1

\* C9: in the processing of one message a Frame event is published only for
\* a leading frame element and before every Gesture event of the message;
\* the Gesture events come in the order of their elements, each for a static
\* or dynamic element of this message; calls other than a message publish
\* no Frame or Gesture event.
C9_EventOrder ==
    LET ev == last.events
    IN /\ last.op # "message" =>
              \A k \in 1..Len(ev) : ev[k].event.type \notin {"frame", "gesture"}
       /\ last.op = "message" =>
              /\ \A k \in 1..Len(ev) : ev[k].event.type \in {"frame", "gesture"}
              /\ \A k \in 1..Len(ev) :
                     ev[k].event.type = "frame" =>
                         /\ HasElems(last.e)
                         /\ last.e.json.data[1].type = "frame"
                         /\ ev[k].elem = 1
                         /\ ev[k].event.frame = last.e.json.data[1].data
              /\ \A k \in 1..Len(ev) :
                     ev[k].event.type = "gesture" =>
                         /\ HasElems(last.e)
                         /\ ev[k].elem \in GestureElems(last.e)
                         /\ ev[k].event.gesture.type = last.e.json.data[ev[k].elem].type
                         /\ ev[k].event.gesture.name = last.e.json.data[ev[k].elem].name
              /\ \A j, k \in 1..Len(ev) :
                     (j < k /\ ev[j].event.type = "gesture") =>
                         /\ ev[k].event.type = "gesture"
                         /\ ev[j].elem <= ev[k].elem
                         /\ ev[j].elem = ev[k].elem => ev[j].pos < ev[k].pos

\* C9's case: a message whose Frame event was followed by the Gesture
\* events of its second and third elements.
C9_Witness ==
    /\ last.op = "message"
    /\ Len(last.events) = 3
    /\ last.events[1].event.type = "frame"
    /\ last.events[2].event.type = "gesture" /\ last.events[2].elem = 2
    /\ last.events[3].event.type = "gesture" /\ last.events[3].elem = 3

\* C10: every Gesture event carries the payload of the frame element that
\* leads its own message, or the empty frame when the message has none.
C10_GestureCarriesOwnFrame ==
    last.op = "message" =>
        \A k \in 1..Len(last.events) :
            last.events[k].event.type = "gesture" =>
                last.events[k].event.frame = LeadingFrame(last.e)

\* C10's case: a Gesture event that carries the payload of the frame
\* element leading its message.
C10_Witness ==
    /\ last.op = "message"
    /\ \E k \in 1..Len(last.events) :
           /\ last.events[k].event.type = "gesture"
           /\ last.events[k].event.frame = "f1"
           /\ last.e.json.data[1].type = "frame"

\* C11: removeEventListener(kind, handler) leaves, for that kind, the
\* previous list with every occurrence of handler deleted and the other
\* subscribers kept in their order, and leaves the lists of the other kinds
\* as they were.
C11_RemoveDeletesHandler ==
    [][last'.op = "removeEventListener" =>
          \A k \in Kinds, fn \in Handlers :
              RemoveEventListener(k, fn) =>
                  LET Other(elem) == elem # fn
                  IN /\ eventListeners'[k] = SelectSeq(eventListeners[k], Other)
                     /\ \A j \in Kinds \ {k} : eventListeners'[j] = eventListeners[j]
      ]_vars

\* C12: when a connect subscriber throws during the dispatch of the open
\* handler, every connect subscriber is still invoked and the push of the
\* Registration Store still happens.
C12_FailureIsolated ==
    (/\ last.op = "open"
     /\ \E k \in 1..Len(last.events) : last.events[k].fn = "thrower") =>
        /\ \A pos \in 1..Len(eventListeners.connect) :
               \E k \in 1..Len(last.events) : last.events[k].pos = pos
        /\ (Store.static # <<>> \/ Store.dynamic # <<>>) => last.sent # <<>>

\* A payload that does not parse, or parses to a data envelope whose data
\* field is missing or holds a null element.
Malformed(e) ==
    \/ ~e.parses
    \/ /\ e.json.type = "data"
       /\ \/ ~e.json.hasData
          \/ \E i \in 1..Len(e.json.data) : IsNull(e.json.data[i])

\* C13: the handling of a malformed inbound payload raises nothing and
\* publishes no Frame or Gesture event.
C13_MalformedPayloadHandled ==
    (last.op = "message" /\ Malformed(last.e)) =>
        (~last.threw /\ last.events = <<>>)

\* C14: a connect call made while the session holds a transport creates no
\* transport, keeps the handle, leaves the session state, the Registration
\* Store and the subscribers as they were, and raises nothing.
C14_ConnectTwiceIsNoOp ==
    [][(client # NoClient /\ last'.op = "connect") =>
          /\ UNCHANGED <<client, sockets, connected, registeredGestures,
                         eventListeners, requireRegistration, server>>
          /\ ~last'.threw
          /\ last'.sent = <<>> /\ last'.events = <<>> /\ last'.closed = <<>>
      ]_vars

\* C14's case: connect was called on a session whose only transport had
\* delivered open and was still held.
C14_Witness ==
    /\ last.op = "connect"
    /\ connected
    /\ client = 1
    /\ sockets[1].state = "open" /\ ~sockets[1].closeCalled
    /\ sockets[2].state = "unused"

\* C15: a disconnect call raises nothing; without a transport handle it
\* closes nothing, with one it closes that transport, which was never closed
\* before; after it the session state is Disconnected and the handle is
\* released, the Registration Store and the subscribers are as they were;
\* and a connect call made without a handle creates a new transport.
C15_DisconnectIsSafe ==
    [][/\ last'.op = "disconnect" =>
             /\ ~last'.threw
             /\ ~connected' /\ client' = NoClient
             /\ UNCHANGED <<registeredGestures, eventListeners>>
             /\ IF client = NoClient
                THEN last'.closed = <<>> /\ UNCHANGED sockets
                ELSE /\ last'.closed = <<client>>
                     /\ ~sockets[client].closeCalled
                     /\ sockets'[client].closeCalled
       /\ (last'.op = "connect" /\ client = NoClient) =>
             /\ client' # NoClient
             /\ sockets[client'].state = "unused"
             /\ sockets'[client'].state = "connecting"
      ]_vars

\* C15's case: disconnect released and closed the first transport, and a
\* later connect created the second.
C15_Witness ==
    /\ last.op = "connect"
    /\ client = 2
    /\ sockets[1].closeCalled
    /\ sockets[2].state = "connecting"

\* Whether the last call published an event of kind k for element elem of
\* its message (elem 0: an event that comes from no element).
Published(k, elem) ==
    CASE k = "connect" -> last.op = "open" /\ elem = 0
      [] k = "disconnect" -> last.op = "close" /\ elem = 0
      [] k = "error" -> last.op = "error" /\ elem = 0
      [] k = "frame" -> /\ last.op = "message" /\ elem = 1
                        /\ HasElems(last.e)
                        /\ last.e.json.data[1].type = "frame"
      [] k = "gesture" -> /\ last.op = "message"
                          /\ elem \in GestureElems(last.e)
                          /\ \/ ~requireRegistration
                             \/ Includes(Store[last.e.json.data[elem].type],
                                         last.e.json.data[elem].name)
      [] OTHER -> FALSE

\* The subscribers invoked for the event of kind k of element elem, in the
\* order of their invocation.
Invoked(k, elem) ==
    LET Is(x) == x.event.type = k /\ x.elem = elem
        got == SelectSeq(last.events, Is)
    IN [i \in 1..Len(got) |-> got[i].fn]

\* C16: for every event published, the subscribers invoked are the
\* subscribers of its kind, in the order of their registration and once per
\* registration (a handler registered twice is invoked twice); no subscriber
\* of another kind is invoked.
C16_RegistrationOrder ==
    (last.op = "message" => WellFormed(last.e)) =>
        \A k \in Kinds, elem \in 0..MaxElems :
            Invoked(k, elem) = IF Published(k, elem) THEN eventListeners[k] ELSE <<>>

\* C17: an error notification gives one Error event carrying the error
\* detail to each error subscriber, in order, and nothing else happens: the
\* session state, the transport handle, the transports, the Registration
\* Store and the subscribers are as before, and no message is sent; the
\* session state leaves Connected only in a close notification or a
\* disconnect call.
C17_ErrorOnlyPublishes ==
    [][/\ last'.op = "error" =>
             /\ Len(last'.events) = Len(eventListeners.error)
             /\ \A i \in 1..Len(last'.events) :
                    /\ last'.events[i].fn = eventListeners.error[i]
                    /\ last'.events[i].event = ErrorEvent("failed")
             /\ last'.sent = <<>> /\ last'.closed = <<>>
             /\ UNCHANGED <<connected, client, sockets, registeredGestures,
                            eventListeners>>
       /\ (connected /\ ~connected') => last'.op \in {"close", "disconnect"}
      ]_vars

\* C18: the session state is Connected only while the session holds a
\* transport handle.
C18_ConnectedHoldsHandle ==
    connected => client # NoClient

\* C19: while the transport the session holds has delivered open and has
\* not delivered close, the session state is Connected.
C19_StateFollowsHeldTransport ==
    (client # NoClient /\ sockets[client].state = "open") => connected

\* Whether the last call raised out of a subscriber: the loop over the
\* subscribers ends at the one that throws.
SubscriberThrew ==
    /\ last.threw
    /\ last.events # <<>>
    /\ last.events[Len(last.events)].fn = "thrower"

\* C20: no send of an operation message is attempted without a transport
\* handle: the open handler, registerGestures and unregisterGestures raise
\* only when a subscriber throws.
C20_SendOnHeldHandle ==
    (last.op \in {"open", "register", "unregister"} /\ last.threw) => SubscriberThrew

====
